---- MODULE Spec2Model ----
(***************************************************************************)
(* Model of src/app.py: a Streamlit page that loads a table (upload or     *)
(* built-in sample), charts it and, when the analysis button is pressed,   *)
(* runs generate_insight(df, domain, api_key) against the Gemini client.   *)
(*                                                                         *)
(* The page framework re-executes the whole script on every interaction;   *)
(* one interaction cycle is the run Interact -> LoadData -> Render ->      *)
(* Button... -> (generate_insight steps) -> Display.  Calls into pandas,   *)
(* seaborn and google.generativeai either return or raise; the outcomes    *)
(* are drawn from small sets.  Text such as f-strings is a sequence of its *)
(* fragments (literal parts and interpolated values), so "contains" and    *)
(* "equals verbatim" are different statements.  The user-visible literals  *)
(* of the source are Chinese; they are written here in ASCII.              *)
(***************************************************************************)
EXTENDS Integers, Sequences, FiniteSets

VARIABLES
    api_key,        \* st.text_input value of this cycle          (line 17)
    domain,         \* st.selectbox value of this cycle           (line 20)
    uploaded_file,  \* st.file_uploader value of this cycle       (line 114)
    button,         \* whether st.button returned True this cycle (line 136)
    df,             \* the table of this cycle                    (lines 116-119)
    chart,          \* the two columns drawn by this cycle        (lines 128-132)
    pc,             \* position of the script
    model,          \* local `model` of generate_insight          (line 50)
    stats,          \* local `stats`                              (line 55)
    task_prompt,    \* local `task_prompt`                        (lines 60, 73)
    response,       \* local `response`                           (line 87)
    block_reason,   \* local `block_reason`                       (line 94)
    report,         \* value returned by generate_insight         (line 138)
    outcome,        \* which return statement (or raise) ended generate_insight
    shown,          \* what st.write displayed in this cycle      (line 140)
    script_error,   \* exception that aborted the script run, if any
    configured,     \* genai's process-wide key, set by genai.configure
    calls,          \* client calls made by the current invocation, in order
    n_cycles,       \* interaction cycles started
    n_ready,        \* invocations in which key and configuration were fine
    n_generate      \* generate_content calls issued since start

vars == <<api_key, domain, uploaded_file, button, df, chart, pc, model, stats,
          task_prompt, response, block_reason, report, outcome, shown,
          script_error, configured, calls, n_cycles, n_ready, n_generate>>

\* Number of interaction cycles explored.
MaxCycles == 2

-----------------------------------------------------------------------------
(* Widget values *)

Traffic == "Traffic"   \* selectbox option 1, line 20
Factory == "Factory"   \* selectbox option 2, line 20
Domains == {Traffic, Factory}

NoKey == ""            \* st.text_input returns "" when nothing is typed
Keys == {NoKey, "key-A", "key-B"}

NoFile == "<none>"     \* st.file_uploader returns None when nothing is uploaded
Files == {NoFile, "ab.csv", "onecol.csv", "notime.csv", "bad.csv"}

None == "<none>"
Raised == "<raise>"

-----------------------------------------------------------------------------
(* Tables.  A table is a sequence of columns; a column has a name, a dtype  *)
(* flag and its values.  Time labels '08:00'.. are written as the hour.     *)
(* Vibration readings (0.5 .. 3.1 mm/s) are written in tenths.              *)

Col(n, num, v) == [name |-> n, numeric |-> num, values |-> v]

NoTable == << >>

\* Variant of get_mock_data with the test of line 25 inverted.
get_mock_data_swapped(d) ==
    IF d # Traffic
    THEN << Col("Time", FALSE, <<8, 9, 10, 11, 12, 13, 14>>),
            Col("Flow (veh/hr)", TRUE, <<1200, 800, 400, 350, 450, 400, 380>>),
            Col("Speed (km/h)", TRUE, <<15, 30, 60, 65, 60, 62, 65>>),
            Col("Occupancy (%)", TRUE, <<85, 60, 20, 15, 25, 20, 18>>) >>
    ELSE << Col("Time", FALSE, <<8, 9, 10, 11, 12, 13, 14>>),
            Col("Temperature (C)", TRUE, <<60, 65, 85, 90, 70, 65, 62>>),
            Col("Vibration (mm/s)", TRUE, <<5, 6, 28, 31, 8, 6, 5>>),
            Col("Output (units)", TRUE, <<100, 98, 40, 35, 95, 100, 100>>) >>

get_mock_data(d) ==
    IF d = Traffic
    THEN << Col("Time", FALSE, <<8, 9, 10, 11, 12, 13, 14>>),
            Col("Flow (veh/hr)", TRUE, <<1200, 800, 400, 350, 450, 400, 380>>),
            Col("Speed (km/h)", TRUE, <<15, 30, 60, 65, 60, 62, 65>>),
            Col("Occupancy (%)", TRUE, <<85, 60, 20, 15, 25, 20, 18>>) >>
    ELSE << Col("Time", FALSE, <<8, 9, 10, 11, 12, 13, 14>>),
            Col("Temperature (C)", TRUE, <<60, 65, 85, 90, 70, 65, 62>>),
            Col("Vibration (mm/s)", TRUE, <<5, 6, 28, 31, 8, 6, 5>>),
            Col("Output (units)", TRUE, <<100, 98, 40, 35, 95, 100, 100>>) >>

\* pd.read_csv on the uploaded file: the parsed table, or Raised.
read_csv(f) ==
    CASE f = "ab.csv" ->
            << Col("Time", FALSE, <<1, 2, 3, 4, 5>>),
               Col("A", TRUE, <<10, 20, 30, 40, 50>>),
               Col("B", TRUE, <<5, 4, 3, 2, 1>>) >>
      [] f = "onecol.csv" ->
            << Col("Time", FALSE, <<1, 2, 3>>),
               Col("A", TRUE, <<7, 9, 8>>) >>
      [] f = "notime.csv" ->
            << Col("X", TRUE, <<1, 2, 3>>),
               Col("Y", TRUE, <<6, 5, 4>>) >>
      [] OTHER -> Raised

RECURSIVE SelectNumeric(_)
\* df.select_dtypes(include=['number']): the numeric columns, in order.
SelectNumeric(t) ==
    IF t = << >> THEN << >>
    ELSE IF Head(t).numeric THEN <<Head(t)>> \o SelectNumeric(Tail(t))
         ELSE SelectNumeric(Tail(t))

HasColumn(t, n) == \E i \in 1..Len(t) : t[i].name = n

RECURSIVE SeqMin(_)
SeqMin(s) ==
    IF Len(s) = 1 THEN s[1]
    ELSE LET m == SeqMin(Tail(s)) IN IF s[1] < m THEN s[1] ELSE m

RECURSIVE SeqMax(_)
SeqMax(s) ==
    IF Len(s) = 1 THEN s[1]
    ELSE LET m == SeqMax(Tail(s)) IN IF s[1] > m THEN s[1] ELSE m

\* df.describe(): per numeric column its aggregates (of which count, min and
\* max are kept here; they are the ones with integer values).
describe(t) ==
    LET num == SelectNumeric(t) IN
    [i \in 1..Len(num) |->
        [name  |-> num[i].name,
         count |-> Len(num[i].values),
         min   |-> SeqMin(num[i].values),
         max   |-> SeqMax(num[i].values)]]

-----------------------------------------------------------------------------
(* The Gemini client as seen by generate_insight *)

ModelName == "gemini-flash-latest"                     \* line 50

ConfigErrors == {"invalid api key format", "client construction failed"}
GenErrors    == {"quota exceeded", "connection reset"}
ReadErrors   == {"response.text needs a single text part"}

BlockReasons  == {"BLOCKED", "OTHER"}
FinishReasons == {"SAFETY", "STOP"}
Unset   == "<unset>"    \* a falsy attribute value (None, or the enum's 0)
NoAttr  == "<noattr>"   \* an object without the attribute
NoName  == "<noname>"   \* a truthy value that is no enum: `.name` raises
Answers == {"OK", "ANSWER"}

\* Largest number of content parts of a response.
MaxParts == 2

(* A response of generate_content:                                          *)
(*   readable  FALSE when reading .parts raises (error message in `text`)   *)
(*   parts     number of content parts                                      *)
(*   text      what .text evaluates to; a ReadErrors member when it raises  *)
(*   prompt_feedback                                                        *)
(*             Raised (reading it raises), None (it is None), NoAttr (it    *)
(*             has no block_reason), Unset (block_reason falsy), NoName, or *)
(*             the block reason's name                                      *)
(*   candidates                                                             *)
(*             Raised (reading it raises), None (empty list), NoName (the   *)
(*             first candidate's finish_reason has no .name), or that name  *)
Resp(ok, p, t, f, c) ==
    [readable |-> ok, parts |-> p, text |-> t, prompt_feedback |-> f, candidates |-> c]

FeedbackShapes  == {Raised, None, NoAttr, Unset, NoName} \cup BlockReasons
CandidateShapes == {Raised, None, NoName} \cup FinishReasons

Responses ==
    { Resp(TRUE, 0, r, f, c) : r \in ReadErrors, f \in FeedbackShapes, c \in CandidateShapes }
    \cup { Resp(TRUE, n, t, None, "STOP") : n \in 1..MaxParts, t \in Answers \cup ReadErrors }
    \cup { Resp(FALSE, 0, r, None, None) : r \in ReadErrors }

NoResponse == Resp(TRUE, 0, None, None, None)

-----------------------------------------------------------------------------
(* Texts.  A report is the sequence of the fragments of its f-string.      *)

MissingKeyMsg   == "(!) Please enter a Google API Key to get the AI report."  \* line 44
ConfigErrPrefix == "API configuration error: "                                \* line 52
GenErrPrefix    == "Generation error: "                                       \* line 107
FallbackMsg     == "Content is empty and the detailed feedback cannot be read. Check the API key and the model permissions."  \* line 103
UnknownFinish   == "unknown"                                                  \* line 96
NotProvided     == "not provided"                                             \* line 94

BlockedReport(finish_reason, br) ==                                           \* line 100
    << "Content was blocked or is empty. Finish reason: ", finish_reason,
       ". Block reason: ", br, ". Check the prompt or the safety settings." >>

RoleTraffic == "You are a senior traffic data analyst."                       \* line 59
RoleFactory == "You are a senior plant equipment maintenance engineer."       \* line 72

\* Lines 58-83: the prompt template of the domain, filled with the statistics.
BuildPrompt(d, st) ==
    IF d = Traffic
    THEN [role  |-> RoleTraffic,
          intro |-> "Analyse the following traffic statistics:",
          stats |-> st,
          tasks |-> "1. Flow vs Speed. 2. Congestion (low speed, high occupancy)? 3. Three traffic suggestions. Answer in Traditional Chinese."]
    ELSE [role  |-> RoleFactory,
          intro |-> "Analyse the following machine sensor statistics:",
          stats |-> st,
          tasks |-> "1. Temperature and Vibration spikes? 2. Output affected? 3. Three maintenance suggestions. Answer in Traditional Chinese."]

NoPrompt == [role |-> None, intro |-> None, stats |-> << >>, tasks |-> None]

Contains(text, fragment) == \E i \in 1..Len(text) : text[i] = fragment

Call(c, r) == [call |-> c, result |-> r]

-----------------------------------------------------------------------------
(* Initial state: the page before the first interaction. *)

Init ==
    /\ api_key = NoKey /\ domain = Traffic /\ uploaded_file = NoFile
    /\ button = FALSE
    /\ df = NoTable /\ chart = << >>
    /\ pc = "idle"
    /\ model = None /\ stats = << >> /\ task_prompt = NoPrompt
    /\ response = NoResponse /\ block_reason = None
    /\ report = << >> /\ outcome = None /\ shown = << >>
    /\ script_error = None
    /\ configured = NoKey
    /\ calls = << >>
    /\ n_cycles = 0 /\ n_ready = 0 /\ n_generate = 0

widgets == <<api_key, domain, uploaded_file, button>>
locals  == <<model, stats, task_prompt, response, block_reason>>
totals  == <<n_cycles, n_ready, n_generate>>

\* The script run ends because exception `e` escaped it (the framework shows
\* the traceback; the page waits for the next interaction).
Abort(e) ==
    /\ script_error' = e
    /\ pc' = "idle"

\* A user interaction: the framework re-executes the script from line 1 with
\* the widget values of the page.
Interact(k, d, f, b) ==
    /\ pc = "idle"
    /\ n_cycles < MaxCycles
    /\ api_key' = k /\ domain' = d /\ uploaded_file' = f /\ button' = b
    /\ df' = NoTable /\ chart' = << >>
    /\ model' = None /\ stats' = << >> /\ task_prompt' = NoPrompt
    /\ response' = NoResponse /\ block_reason' = None
    /\ report' = << >> /\ outcome' = None /\ shown' = << >>
    /\ script_error' = None
    /\ calls' = << >>
    /\ n_cycles' = n_cycles + 1
    /\ pc' = "load"
    /\ UNCHANGED <<configured, n_ready, n_generate>>

\* Lines 116-120: the table of the cycle.
LoadData ==
    /\ pc = "load"
    /\ IF uploaded_file # NoFile
       THEN IF read_csv(uploaded_file) = Raised
            THEN Abort("read_csv") /\ UNCHANGED df
            ELSE df' = read_csv(uploaded_file) /\ pc' = "render" /\ UNCHANGED script_error
       ELSE df' = get_mock_data(domain) /\ pc' = "render" /\ UNCHANGED script_error
    /\ UNCHANGED <<widgets, chart, locals, report, outcome, shown, configured, calls, totals>>

\* Lines 126-132: the dual-axis chart of the first two numeric columns.
Render ==
    /\ pc = "render"
    /\ LET numeric_cols == SelectNumeric(df) IN
       IF Len(numeric_cols) >= 2
       THEN IF HasColumn(df, "Time")
            THEN /\ chart' = <<numeric_cols[1].name, numeric_cols[2].name>>
                 /\ pc' = "button" /\ UNCHANGED script_error
            ELSE Abort("lineplot") /\ UNCHANGED chart
       ELSE pc' = "button" /\ UNCHANGED <<chart, script_error>>
    /\ UNCHANGED <<widgets, df, locals, report, outcome, shown, configured, calls, totals>>

\* Line 136, button not pressed: the script run ends without an analysis.
ButtonIdle ==
    /\ pc = "button" /\ ~button
    /\ pc' = "idle"
    /\ UNCHANGED <<widgets, df, chart, locals, report, outcome, shown,
                   script_error, configured, calls, totals>>

\* Lines 136-138, button pressed: generate_insight(df, domain, api_key) is entered.
ButtonPressed ==
    /\ pc = "button" /\ button
    /\ pc' = "gi_key"
    /\ UNCHANGED <<widgets, df, chart, locals, report, outcome, shown,
                   script_error, configured, calls, totals>>

\* generate_insight returns `r` through the return statement tagged `o`.
Return(o, r) ==
    /\ report' = r
    /\ outcome' = o
    /\ pc' = "show"

\* Variant of KeyMissing: `api_key is None`, which "" does not satisfy.
KeyMissing_isNone == api_key = None

\* Line 43: `not api_key`.
KeyMissing == api_key = NoKey

\* Lines 43-44.
CheckKey ==
    /\ pc = "gi_key"
    /\ IF KeyMissing
       THEN Return("MissingCredential", <<MissingKeyMsg>>)
       ELSE pc' = "gi_configure" /\ UNCHANGED <<report, outcome>>
    /\ UNCHANGED <<widgets, df, chart, locals, shown, script_error, configured, calls, totals>>

\* Variant of Configure whose handler does not return: the error is dropped
\* and the function goes on.
Configure_unguarded ==
    /\ pc = "gi_configure"
    /\ \/ /\ configured' = api_key
          /\ calls' = Append(calls, Call("configure", "ok"))
       \/ \E e \in ConfigErrors :
          /\ calls' = Append(calls, Call("configure", e))
          /\ UNCHANGED configured
    /\ pc' = "gi_model"
    /\ UNCHANGED <<report, outcome>>
    /\ UNCHANGED <<widgets, df, chart, locals, shown, script_error, totals>>

\* Line 48: genai.configure(api_key=api_key); an exception is caught at line 51.
Configure ==
    /\ pc = "gi_configure"
    /\ \/ /\ configured' = api_key
          /\ calls' = Append(calls, Call("configure", "ok"))
          /\ pc' = "gi_model"
          /\ UNCHANGED <<report, outcome>>
       \/ \E e \in ConfigErrors :
          /\ calls' = Append(calls, Call("configure", e))
          /\ Return("ConfigurationError", <<ConfigErrPrefix, e>>)
          /\ UNCHANGED configured
    /\ UNCHANGED <<widgets, df, chart, locals, shown, script_error, totals>>

\* Line 50: model = genai.GenerativeModel(...); an exception is caught at line 51.
MakeModel ==
    /\ pc = "gi_model"
    /\ \/ /\ model' = ModelName
          /\ calls' = Append(calls, Call("GenerativeModel", "ok"))
          /\ n_ready' = n_ready + 1
          /\ pc' = "gi_describe"
          /\ UNCHANGED <<report, outcome>>
       \/ \E e \in ConfigErrors :
          /\ calls' = Append(calls, Call("GenerativeModel", e))
          /\ Return("ConfigurationError", <<ConfigErrPrefix, e>>)
          /\ UNCHANGED <<model, n_ready>>
    /\ UNCHANGED <<widgets, df, chart, stats, task_prompt, response, block_reason,
                   shown, script_error, configured, n_cycles, n_generate>>

\* Whether df.describe() can raise on the table: the built-in samples are
\* always summarised; an uploaded table is whatever pandas parsed.
DescribeMayRaise == uploaded_file # NoFile

\* Line 55: stats = df.describe().to_string().  The statement is outside every
\* try block: an exception leaves generate_insight and ends the script run.
Describe ==
    /\ pc = "gi_describe"
    /\ \/ /\ stats' = describe(df)
          /\ pc' = "gi_prompt"
          /\ UNCHANGED <<outcome, script_error>>
       \/ /\ DescribeMayRaise
          /\ outcome' = Raised
          /\ Abort("describe")
          /\ UNCHANGED stats
    /\ UNCHANGED <<widgets, df, chart, model, task_prompt, response, block_reason,
                   report, shown, configured, calls, totals>>

\* Lines 58-83.
Prompt ==
    /\ pc = "gi_prompt"
    /\ task_prompt' = BuildPrompt(domain, stats)
    /\ pc' = "gi_generate"
    /\ UNCHANGED <<widgets, df, chart, model, stats, response, block_reason, report,
                   outcome, shown, script_error, configured, calls, totals>>

\* Variant of GenerationError that leaves str(e) out of the report.
GenerationError_nomsg(e) == Return("TransportError", <<GenErrPrefix>>)

\* Line 107: the handler of the outer try block.
GenerationError(e) == Return("TransportError", <<GenErrPrefix, e>>)

\* Line 87: response = model.generate_content(task_prompt).
Generate ==
    /\ pc = "gi_generate"
    /\ n_generate' = n_generate + 1
    /\ \/ \E r \in Responses :
          /\ response' = r
          /\ calls' = Append(calls, Call("generate_content", "ok"))
          /\ pc' = "gi_parts"
          /\ UNCHANGED <<report, outcome>>
       \/ \E e \in GenErrors :
          /\ calls' = Append(calls, Call("generate_content", e))
          /\ GenerationError(e)
          /\ UNCHANGED response
    /\ UNCHANGED <<widgets, df, chart, model, stats, task_prompt, block_reason, shown,
                   script_error, configured, n_cycles, n_ready>>

\* Line 89: `if not response.parts`.
ReadParts ==
    /\ pc = "gi_parts"
    /\ IF ~response.readable
       THEN GenerationError(response.text)
       ELSE /\ pc' = IF response.parts = 0 THEN "gi_feedback" ELSE "gi_text"
            /\ UNCHANGED <<report, outcome>>
    /\ UNCHANGED <<widgets, df, chart, locals, shown, script_error, configured, calls, totals>>

\* Variant of Fallback without the inner try block: the exception reaches the
\* outer handler.
Fallback_outer == GenerationError("AttributeError")

\* Line 103: the handler of the inner try block.
Fallback == Return("EmptyBlockedFallback", <<FallbackMsg>>)

\* Line 94: the conditional expression that sets block_reason.
BlockReasonOf(feedback) ==
    IF feedback \in {None, NoAttr, Unset} THEN NotProvided ELSE feedback

\* Lines 93-94.
ReadFeedback ==
    /\ pc = "gi_feedback"
    /\ IF response.prompt_feedback \in {Raised, NoName}
       THEN Fallback /\ UNCHANGED block_reason
       ELSE /\ block_reason' = BlockReasonOf(response.prompt_feedback)
            /\ pc' = "gi_candidates"
            /\ UNCHANGED <<report, outcome>>
    /\ UNCHANGED <<widgets, df, chart, model, stats, task_prompt, response, shown,
                   script_error, configured, calls, totals>>

\* Variant of FinishReasonOf that never reads the candidate.
FinishReasonOf_unknown(candidates) == UnknownFinish

\* Lines 96-98: finish_reason of the first candidate, "unknown" without one.
FinishReasonOf(candidates) ==
    IF candidates = None THEN UnknownFinish ELSE candidates

\* Lines 96-100.
ReadCandidates ==
    /\ pc = "gi_candidates"
    /\ IF response.candidates \in {Raised, NoName}
       THEN Fallback
       ELSE Return("EmptyBlocked",
                   BlockedReport(FinishReasonOf(response.candidates), block_reason))
    /\ UNCHANGED <<widgets, df, chart, locals, shown, script_error, configured, calls, totals>>

\* Variant of ReturnText that returns the text inside a wrapper.
ReturnText_wrapped ==
    /\ pc = "gi_text"
    /\ IF response.text \in ReadErrors
       THEN GenerationError(response.text)
       ELSE Return("Success", <<"Report: ", response.text>>)
    /\ UNCHANGED <<widgets, df, chart, locals, shown, script_error, configured, calls, totals>>

\* Line 105: return response.text; an exception is caught at line 106.
ReturnText ==
    /\ pc = "gi_text"
    /\ IF response.text \in ReadErrors
       THEN GenerationError(response.text)
       ELSE Return("Success", <<response.text>>)
    /\ UNCHANGED <<widgets, df, chart, locals, shown, script_error, configured, calls, totals>>

\* Lines 139-142: the report is written to the page; the script run ends.
Display ==
    /\ pc = "show"
    /\ shown' = report
    /\ pc' = "idle"
    /\ UNCHANGED <<widgets, df, chart, locals, report, outcome, script_error,
                   configured, calls, totals>>

Next ==
    \/ \E k \in Keys, d \in Domains, f \in Files, b \in BOOLEAN : Interact(k, d, f, b)
    \/ LoadData
    \/ Render
    \/ ButtonIdle
    \/ ButtonPressed
    \/ CheckKey
    \/ Configure
    \/ MakeModel
    \/ Describe
    \/ Prompt
    \/ Generate
    \/ ReadParts
    \/ ReadFeedback
    \/ ReadCandidates
    \/ ReturnText
    \/ Display

Spec == Init /\ [][Next]_vars


-----------------------------------------------------------------------------
(* Properties *)

\* generate_insight returned a report in this cycle (the values of the
\* invocation stay in place until the next interaction).
Returned == pc = "show" \/ (pc = "idle" /\ outcome \notin {None, Raised})

\* generate_insight is past the credential check of line 43.
PastKeyCheck ==
    \/ pc \in {"gi_configure", "gi_model", "gi_describe", "gi_prompt", "gi_generate",
               "gi_parts", "gi_feedback", "gi_candidates", "gi_text", "show"}
    \/ outcome # None

CallNames == [i \in 1..Len(calls) |-> calls[i].call]

\* The last client call is a generate_content call that returned a response.
GenerationSucceeded ==
    /\ calls # << >>
    /\ calls[Len(calls)] = Call("generate_content", "ok")

\* C1: an invocation with an empty credential returns exactly the
\* missing-credential message and makes no client call at all: neither
\* genai.configure / GenerativeModel nor generate_content; this holds for every
\* table and both domains.
C1_EmptyCredentialNoCall ==
    (api_key = NoKey /\ PastKeyCheck) =>
        /\ outcome = "MissingCredential"
        /\ report = <<MissingKeyMsg>>
        /\ calls = << >>
        /\ pc \in {"show", "idle"}

C1_Witness ==
    /\ api_key = NoKey /\ outcome = "MissingCredential" /\ shown = <<MissingKeyMsg>>
    /\ uploaded_file = "ab.csv" /\ domain = Factory
    /\ configured # NoKey

\* C2: every error of an interaction cycle is turned into a text report:
\* whichever step of a triggered analysis fails, generate_insight returns a
\* report and never ends by raising.
C2_AllErrorsRecovered ==
    /\ outcome # Raised
    /\ (button /\ script_error = None /\ pc = "idle" /\ n_cycles > 0) => shown # << >>

\* C3: when the credential is non-empty and genai.configure or the
\* GenerativeModel construction fails with error e, the report is the
\* configuration-error prefix followed by e, the failed call is the last client
\* call of the invocation, and no generate_content call is made.
C3_ConfigurationError ==
    \A i \in 1..Len(calls) :
        (calls[i].call \in {"configure", "GenerativeModel"} /\ calls[i].result # "ok") =>
            /\ api_key # NoKey
            /\ i = Len(calls)
            /\ outcome = "ConfigurationError"
            /\ report = <<ConfigErrPrefix, calls[i].result>>
            /\ \A j \in 1..Len(calls) : calls[j].call # "generate_content"

C3_Witness ==
    /\ Returned /\ outcome = "ConfigurationError"
    /\ CallNames = <<"configure", "GenerativeModel">>
    /\ report = <<ConfigErrPrefix, "client construction failed">>

\* C4: when generate_content raises error e, the report is the
\* generation-error prefix followed by e; no response is interpreted, so neither
\* the blocked/empty nor the success report can be produced.
C4_TransportError ==
    \A i \in 1..Len(calls) :
        (calls[i].call = "generate_content" /\ calls[i].result # "ok") =>
            /\ outcome = "TransportError"
            /\ report = <<GenErrPrefix, calls[i].result>>
            /\ report[1] = GenErrPrefix /\ Contains(report, calls[i].result)
            /\ response = NoResponse

C4_Witness ==
    /\ Returned /\ outcome = "TransportError"
    /\ calls[Len(calls)] = Call("generate_content", "quota exceeded")
    /\ shown = <<GenErrPrefix, "quota exceeded">>

\* The diagnostic fields of the response can be read (lines 93-98 do not raise).
DiagnosticsReadable ==
    /\ response.prompt_feedback \notin {Raised, NoName}
    /\ response.candidates \notin {Raised, NoName}

\* C5: when generate_content returns a response with zero parts whose
\* diagnostic fields are readable, the report is the blocked-or-empty report;
\* it carries the finish reason of the first candidate ("unknown" without a
\* candidate) in its finish-reason slot and the block reason of the prompt
\* feedback ("not provided" without feedback or without a block reason) in its
\* block-reason slot.
C5_BlockedReport ==
    (Returned /\ GenerationSucceeded /\ response.readable /\ response.parts = 0
     /\ DiagnosticsReadable) =>
        LET fin == IF response.candidates = None THEN "unknown" ELSE response.candidates
            blk == IF response.prompt_feedback \in {None, NoAttr, Unset}
                   THEN "not provided" ELSE response.prompt_feedback
        IN /\ outcome = "EmptyBlocked"
           /\ Len(report) = 5
           /\ report[2] = fin /\ report[4] = blk
           /\ Contains(report, fin) /\ Contains(report, blk)

C5_Witness ==
    /\ Returned /\ outcome = "EmptyBlocked"
    /\ response.candidates = "SAFETY" /\ response.prompt_feedback = "BLOCKED"
    /\ Contains(report, "SAFETY") /\ Contains(report, "BLOCKED")

\* C6: when generate_content returns a response with zero parts and reading
\* the diagnostic fields raises, the report is the generic fallback report and
\* not a generation-error report.
C6_FallbackReport ==
    (Returned /\ GenerationSucceeded /\ response.readable /\ response.parts = 0
     /\ ~DiagnosticsReadable) =>
        /\ outcome = "EmptyBlockedFallback"
        /\ report = <<FallbackMsg>>
        /\ ~Contains(report, GenErrPrefix)

C6_Witness ==
    /\ Returned /\ outcome = "EmptyBlockedFallback"
    /\ response.prompt_feedback = "BLOCKED" /\ response.candidates = NoName

\* C7 as stated: with a non-empty credential, successful configuration, a
\* generate_content call that does not raise and a response with at least one
\* part, the report is the answer text and nothing else.
C7_AnswerVerbatim_Stated ==
    (Returned /\ GenerationSucceeded /\ response.readable /\ response.parts >= 1) =>
        /\ outcome = "Success"
        /\ report = <<response.text>>

\* C7 (amended): under the same conditions and when reading response.text does
\* not raise, the report is the answer text and nothing else; when reading it
\* raises, the report is the generation-error report with that error.
C7_AnswerVerbatim ==
    (Returned /\ GenerationSucceeded /\ response.readable /\ response.parts >= 1) =>
        IF response.text \in Answers
        THEN outcome = "Success" /\ report = <<response.text>>
        ELSE outcome = "TransportError" /\ report = <<GenErrPrefix, response.text>>

C7_Witness ==
    /\ pc = "idle" /\ outcome = "Success" /\ api_key # NoKey
    /\ uploaded_file = "ab.csv" /\ chart = <<"A", "B">>
    /\ response.text = "OK" /\ shown = <<"OK">>

TerminalOutcomes ==
    {"MissingCredential", "ConfigurationError", "Success", "EmptyBlocked",
     "EmptyBlockedFallback", "TransportError"}

\* C8: an invocation goes credential check -> configuration -> generation ->
\* terminal: generate_content is called only after a non-empty credential and
\* a successful configuration, at most once per trigger, and every invocation
\* that was entered ends in one of the terminal reporting outcomes (a failing
\* step short-circuits to one of them).
C8_InvocationOrder ==
    /\ \A i \in 1..Len(calls) :
          calls[i].call = "generate_content" =>
             /\ api_key # NoKey
             /\ i = 3
             /\ calls[1] = Call("configure", "ok")
             /\ calls[2] = Call("GenerativeModel", "ok")
    /\ Cardinality({i \in 1..Len(calls) : calls[i].call = "generate_content"}) <= 1
    /\ (button /\ pc = "idle" /\ n_cycles > 0 /\ script_error \notin {"read_csv", "lineplot"}) =>
          outcome \in TerminalOutcomes
    /\ outcome \in TerminalOutcomes \cup {None}

\* What generate_insight returns, as a function of the credential of the
\* invocation and of what the client answered during the invocation.
ExpectedReport ==
    IF api_key = NoKey THEN <<MissingKeyMsg>>
    ELSE IF \E i \in 1..Len(calls) : calls[i].result # "ok"
    THEN LET c == calls[Len(calls)] IN
         IF c.call = "generate_content" THEN <<GenErrPrefix, c.result>>
         ELSE <<ConfigErrPrefix, c.result>>
    ELSE IF ~response.readable THEN <<GenErrPrefix, response.text>>
    ELSE IF response.parts = 0
    THEN IF DiagnosticsReadable
         THEN BlockedReport(
                 IF response.candidates = None THEN UnknownFinish ELSE response.candidates,
                 IF response.prompt_feedback \in {None, NoAttr, Unset}
                 THEN NotProvided ELSE response.prompt_feedback)
         ELSE <<FallbackMsg>>
    ELSE IF response.text \in ReadErrors THEN <<GenErrPrefix, response.text>>
    ELSE <<response.text>>

\* C9: no state persists between invocations: the report of an invocation is
\* determined by its own credential and the client's answers to it (an empty
\* credential yields the missing-credential report without a call even after an
\* earlier successful configuration), and N triggers with a non-empty
\* credential and a successful configuration issue N generate_content calls.
C9_Stateless ==
    /\ Returned => report = ExpectedReport
    /\ (Returned /\ api_key = NoKey /\ configured # NoKey) => calls = << >>
    /\ pc = "idle" => n_generate = n_ready

PresetColumns(d) ==
    IF d = Traffic
    THEN <<"Flow (veh/hr)", "Speed (km/h)", "Occupancy (%)">>
    ELSE <<"Temperature (C)", "Vibration (mm/s)", "Output (units)">>

NumericNames(t) == [i \in 1..Len(SelectNumeric(t)) |-> SelectNumeric(t)[i].name]

\* C10: once the table of a cycle is loaded, it is the uploaded table as
\* parsed, whatever the preset, when a file was uploaded; otherwise it is the
\* 7-row sample whose numeric columns are those of the selected preset, and the
\* prompt built from it by generate_insight uses the persona of that preset.
C10_DatasetProvider ==
    df # NoTable =>
        IF uploaded_file # NoFile
        THEN df = read_csv(uploaded_file)
        ELSE /\ \A i \in 1..Len(df) : Len(df[i].values) = 7
             /\ df[1].name = "Time"
             /\ NumericNames(df) = PresetColumns(domain)
             /\ task_prompt # NoPrompt =>
                   /\ task_prompt.role = (IF domain = Traffic THEN RoleTraffic ELSE RoleFactory)
                   /\ NumericNames(df) = [i \in 1..Len(task_prompt.stats) |-> task_prompt.stats[i].name]
                   /\ (task_prompt.role = RoleTraffic) = (NumericNames(df)[1] = "Flow (veh/hr)")

C10_Witness ==
    /\ pc = "gi_generate" /\ uploaded_file = NoFile /\ domain = Factory
    /\ task_prompt.role = RoleFactory
    /\ NumericNames(df) = <<"Temperature (C)", "Vibration (mm/s)", "Output (units)">>
    /\ chart = <<"Temperature (C)", "Vibration (mm/s)">>

====
